---- MODULE Spec2Model ----
(***************************************************************************)
(* State-machine model of the RTMP stream orchestrator:                    *)
(*   src/src/index.ts      class ExampleAugmentOSApp (session registry,    *)
(*                         persistent settings, start/stop, event handlers)*)
(*   src/unnamed/part_000  the Express routes that call it                 *)
(*                                                                         *)
(* Encoding.  An optional JS value is a set: {} is undefined, {x} is x.    *)
(* A URL is a sequence of string segments (scheme first), the empty string *)
(* is <<>>.  A user id and a stream key are sequences of characters.       *)
(* A UserStreamState is a heap object: objs[o] holds it, activeUserStates  *)
(* maps a user id to the object registered for it (0: no entry), and an    *)
(* async call that is suspended on an await keeps the reference it read.   *)
(* Timestamps (new Date()) and the fixed video/audio parameters are left   *)
(* out: no branch of the code reads them.                                  *)
(***************************************************************************)
EXTENDS Integers, Sequences, FiniteSets, Bags, TLC

VARIABLES
    activeUserStates,        \* index.ts:32  Map userId -> UserStreamState (object id, 0 = absent)
    persistentUserSettings,  \* index.ts:35  Map userId -> UserPersistentSettings ({} = absent)
    objs,                    \* the UserStreamState objects / TpaSessions alive
    calls,                   \* async calls suspended on an await (a bag)
    last                     \* the step just taken: operation, arguments, outcome, effects

vars == <<activeUserStates, persistentUserSettings, objs, calls, last>>

----------------------------------------------------------------------------
(* Bounds of the model *)

MaxSessions == 2    \* device sessions connected at the same time
MaxCalls == 2       \* async calls suspended on an await at the same time
\* characters in a user id of the stream key check
MaxIdLen == 3

----------------------------------------------------------------------------
(* Values *)

None == {}
Some(x) == {x}
The(s) == CHOOSE x \in s : TRUE

Users == { <<"a", "@", "b">> }
\* the characters user ids are made of: letters, and the two the key confuses
IdChars == {"a", "b", "@", "_"}

defaultRtmpUrl == <<"rtmp://", "0.0.0.0/s/streamKey">>
EmptyUrl == <<>>
UrlA == <<"rtmp://", "dest/x">>
UrlB == <<"http://", "dest/y">>

Modes == {"rtmp", "hls", "simulation"}
Statuses == {"stopped", "initializing", "active", "error"}

\* JS truthiness of an optional string
Truthy(optUrl) == optUrl # None /\ The(optUrl) # EmptyUrl

\* String.prototype.startsWith on the first segment
startsWith(url, prefix) == Len(url) > 0 /\ url[1] = prefix

getInitialStreamStatus == [status |-> "stopped", errorDetails |-> None]

ErrorStatus(message) == [status |-> "error", errorDetails |-> Some(message)]

\* userId.replace(/[@]/g, '_')
RECURSIVE replaceAt(_)
replaceAt(s) ==
    IF s = <<>> THEN <<>>
    ELSE <<IF Head(s) = "@" THEN "_" ELSE Head(s)>> \o replaceAt(Tail(s))

streamKey(userId) == <<"u", "s", "e", "r", "_">> \o replaceAt(userId)

\* `rtmp://stream.okgodoit.com/live/${streamKey}`
ingestUrl(key) == <<"rtmp://", "stream.okgodoit.com/live/">> \o key

\* output_url of the face recognition server's response, when it gives one
playbackUrl(key) == <<"https://", "stream.okgodoit.com/hls/">> \o key

TransportErrorMessage == "transport rejected"

\* what the fetch of the configuration can end with: it rejects (network
\* failure), or answers !ok, or answers ok with or without an output_url
FetchFailures == {"network failure", "not ok"}

\* the message of the error caught in startStreamForUser's try block
fetchErrorMessage(response) ==
    IF response = "network failure" THEN "fetch failed"
    ELSE "Failed to configure face recognition: " \o "Bad Gateway"

\* variant of configErrorMessage: the error thrown drops the upstream detail
configErrorMessage_Generic(response) == "Failed to configure face recognition"

\* throw new Error(`Failed to configure face recognition: ${error.message}`)
configErrorMessage(response) ==
    "Failed to configure face recognition: " \o fetchErrorMessage(response)

----------------------------------------------------------------------------
(* Heap helpers *)

ObjIds == 1..MaxSessions

Obj(o) == The(objs[o])

IsConnected(o) == objs[o] # None /\ Obj(o).connected

\* What is kept of the heap.  Only the object registered for a user is read
\* through activeUserStates; of a connected session's object that is not
\* registered, only rtmpUrl can still be read (by that session's event handlers),
\* so its other fields are reset and writes to them do not distinguish states.
Unread(state) ==
    [state EXCEPT !.streamStatus = getInitialStreamStatus,
                  !.streamMode = "hls",
                  !.faceHighlightingEnabled = None,
                  !.hlsUrl = None]

Heap(os, registry) ==
    [o \in ObjIds |->
        IF os[o] # None /\ registry[The(os[o]).user] # o
        THEN Some(Unread(The(os[o]))) ELSE os[o]]

\* Nothing of a disconnected session's object can be read again: a suspended
\* call that holds one holds ClosedSession, and what it writes there is lost.
ClosedSession == 0

\* variant of Closed: the call goes on holding the identifier of the object
Closed_Keeps(c, o) == c

Closed(c, o) == IF c.obj = o THEN [c EXCEPT !.obj = ClosedSession] ELSE c

\* the object o with `state` written to it
Written(os, o, state) ==
    IF o = ClosedSession THEN os ELSE [os EXCEPT ![o] = Some(state)]

FreeIds == {o \in ObjIds : objs[o] = None}

\* A record of a step.  Its last field is history, kept only by the
\* specifications that start it at "none" and left "untracked" by the others:
\* "disconnect" from a disconnect on, "rejected" once the transport has
\* rejected a command of a session connected after that, "event" once a status
\* event has been stored after that.
Recorded(op, userId, args, outcome, effects, since) ==
    [op |-> op, user |-> userId, args |-> args, outcome |-> outcome, effects |-> effects,
     detail |-> None, since |-> since]

sinceDisconnect(op, args, outcome) ==
    IF last.since = "untracked" THEN "untracked"
    ELSE IF op = "onDisconnected" THEN "disconnect"
    ELSE IF op = "onStatus" /\ outcome = "ok" /\ last.since # "none" THEN "event"
    ELSE IF /\ last.since = "disconnect"
            /\ outcome \in {"TransportError", "swallowed"}
            /\ args.session # ClosedSession
         THEN "rejected"
    ELSE last.since

Step(op, userId, args, outcome, effects) ==
    Recorded(op, userId, args, outcome, effects, sinceDisconnect(op, args, outcome))

\* a step that ends by throwing an Error with the given message to its caller
Thrown(step, message) == [step EXCEPT !.detail = Some(message)]

Display(o) == [type |-> "display", session |-> o]
RequestStream(o, url) == [type |-> "requestStream", session |-> o, rtmpUrl |-> url]
StopStream(o) == [type |-> "stopStream", session |-> o]
FetchConfig(key, body) == [type |-> "fetchConfig", streamKey |-> key, body |-> body]

----------------------------------------------------------------------------
(* Settings reads *)

\* variant of getRtmpUrlForUser: the connected session's URL is preferred
getRtmpUrlForUser_SessionFirst(userId) ==
    IF activeUserStates[userId] # 0
    THEN Obj(activeUserStates[userId]).rtmpUrl
    ELSE IF persistentUserSettings[userId] # None
         THEN The(persistentUserSettings[userId]).rtmpUrl
         ELSE defaultRtmpUrl

getRtmpUrlForUser(userId) ==
    IF persistentUserSettings[userId] # None
    THEN The(persistentUserSettings[userId]).rtmpUrl
    ELSE IF activeUserStates[userId] # 0
              /\ Obj(activeUserStates[userId]).rtmpUrl # EmptyUrl
         THEN Obj(activeUserStates[userId]).rtmpUrl
         ELSE defaultRtmpUrl

getStreamStatusForUser(userId) ==
    IF activeUserStates[userId] # 0
    THEN Obj(activeUserStates[userId]).streamStatus
    ELSE getInitialStreamStatus

isFaceHighlightingEnabledForUser(userId) ==
    IF persistentUserSettings[userId] # None
       /\ The(persistentUserSettings[userId]).faceHighlightingEnabled # None
    THEN The(The(persistentUserSettings[userId]).faceHighlightingEnabled)
    ELSE IF activeUserStates[userId] # 0
              /\ Obj(activeUserStates[userId]).faceHighlightingEnabled # None
         THEN The(Obj(activeUserStates[userId]).faceHighlightingEnabled)
         ELSE TRUE

getHlsUrlForUser(userId) ==
    IF activeUserStates[userId] # 0
    THEN Obj(activeUserStates[userId]).hlsUrl
    ELSE None

getStreamModeForUser(userId) ==
    IF persistentUserSettings[userId] # None
       /\ The(persistentUserSettings[userId]).streamMode # None
    THEN The(The(persistentUserSettings[userId]).streamMode)
    ELSE IF activeUserStates[userId] # 0
         THEN Obj(activeUserStates[userId]).streamMode
         ELSE "hls"

----------------------------------------------------------------------------
(* Settings writes.  A Partial<UserPersistentSettings> is a function from   *)
(* the keys it has to optional values (a key may be present and undefined). *)

SettingsKeys == {"rtmpUrl", "streamMode", "faceHighlightingEnabled"}

\* { ...existingSettings, ...settings } over the record of all three keys
mergeSettings(existing, settings) ==
    [k \in SettingsKeys |->
        IF k \in DOMAIN settings THEN settings[k]
        ELSE IF k \in DOMAIN existing THEN existing[k] ELSE None]

\* persistentUserSettings.get(userId) || { rtmpUrl: this.defaultRtmpUrl }
existingSettings(userId) ==
    IF persistentUserSettings[userId] # None
    THEN LET p == The(persistentUserSettings[userId]) IN
         [k \in SettingsKeys |-> IF k = "rtmpUrl" THEN Some(p.rtmpUrl) ELSE p[k]]
    ELSE [k \in {"rtmpUrl"} |-> Some(defaultRtmpUrl)]

AsSettings(m) ==
    [rtmpUrl |-> The(m["rtmpUrl"]),
     streamMode |-> m["streamMode"],
     faceHighlightingEnabled |-> m["faceHighlightingEnabled"]]

\* the persistent map after updatePersistentSettingsForUser(userId, settings)
updatedPersistent(userId, settings) ==
    [persistentUserSettings EXCEPT
        ![userId] = Some(AsSettings(mergeSettings(existingSettings(userId), settings)))]

\* variant of mirrorSettings: nothing is mirrored into the session state
mirrorSettings_Nothing(state, settings) == state

\* the mirror of `settings` into a UserStreamState (index.ts:110-120)
mirrorSettings(state, settings) ==
    [state EXCEPT
        !.streamMode =
            IF "streamMode" \in DOMAIN settings /\ settings["streamMode"] # None
            THEN The(settings["streamMode"]) ELSE @,
        !.faceHighlightingEnabled =
            IF "faceHighlightingEnabled" \in DOMAIN settings
               /\ settings["faceHighlightingEnabled"] # None
            THEN settings["faceHighlightingEnabled"] ELSE @,
        !.rtmpUrl =
            IF "rtmpUrl" \in DOMAIN settings /\ settings["rtmpUrl"] # None
            THEN The(settings["rtmpUrl"]) ELSE @]

\* the heap after updatePersistentSettingsForUser(userId, settings), from heap `os`
updatedObjs(os, userId, settings) ==
    IF activeUserStates[userId] # 0
    THEN [os EXCEPT ![activeUserStates[userId]] =
              Some(mirrorSettings(The(os[activeUserStates[userId]]), settings))]
    ELSE os

----------------------------------------------------------------------------
(* Initial state: the maps of a freshly constructed ExampleAugmentOSApp *)

Init ==
    /\ activeUserStates = [u \in Users |-> 0]
    /\ persistentUserSettings = [u \in Users |-> None]
    /\ objs = [o \in ObjIds |-> None]
    /\ calls = EmptyBag
    /\ last = Recorded("init", <<>>, <<>>, "ok", <<>>, "untracked")

Suspend(c) == calls (+) SetToBag({c})
Resume(c) == calls (-) SetToBag({c})

----------------------------------------------------------------------------
(* Session lifecycle and device events (index.ts onSession) *)

\* variant of sessionDefaults: a fresh session ignores the persisted settings
sessionDefaults_Fresh(p) ==
    [rtmpUrl |-> defaultRtmpUrl, streamMode |-> "hls",
     faceHighlightingEnabled |-> Some(TRUE)]

\* the values onSession takes from the persisted settings p of the user,
\* with its defaults: persistentSettings?.x || default, ?? 'hls', ?? true
sessionDefaults(p) ==
    [rtmpUrl |-> IF p # None /\ The(p).rtmpUrl # EmptyUrl
                 THEN The(p).rtmpUrl ELSE defaultRtmpUrl,
     streamMode |-> IF p # None /\ The(p).streamMode # None
                    THEN The(The(p).streamMode) ELSE "hls",
     faceHighlightingEnabled |->
                 IF p # None /\ The(p).faceHighlightingEnabled # None
                 THEN The(p).faceHighlightingEnabled ELSE Some(TRUE)]

\* onSession: a device session for userId connects
onSession(userId) ==
    /\ FreeIds # {}
    /\ LET o == CHOOSE i \in FreeIds : \A j \in FreeIds : i <= j
           d == sessionDefaults(persistentUserSettings[userId])
           userState ==
               [user |-> userId,
                connected |-> TRUE,
                rtmpUrl |-> d.rtmpUrl,
                streamStatus |-> getInitialStreamStatus,
                streamMode |-> d.streamMode,
                faceHighlightingEnabled |-> d.faceHighlightingEnabled,
                hlsUrl |-> None]
       IN /\ activeUserStates' = [activeUserStates EXCEPT ![userId] = o]
          /\ objs' = Heap([objs EXCEPT ![o] = Some(userState)], activeUserStates')
          /\ last' = Step("onSession", userId, [session |-> o], "ok", <<Display(o)>>)
    /\ UNCHANGED <<persistentUserSettings, calls>>

\* variant of onDisconnected: the disconnect also drops the persisted settings
onDisconnected_DropsSettings(o) ==
    /\ IsConnected(o)
    /\ LET userId == Obj(o).user IN
       /\ activeUserStates' = [activeUserStates EXCEPT ![userId] = 0]
       /\ objs' = Heap([objs EXCEPT ![o] = None], activeUserStates')
       /\ calls' = BagOfAll(LAMBDA c : Closed(c, o), calls)
       /\ persistentUserSettings' = [persistentUserSettings EXCEPT ![userId] = None]
       /\ last' = Step("onDisconnected", userId, [session |-> o], "ok", <<>>)

\* variant of onDisconnected: the user's entry and its state are kept
onDisconnected_KeepsEntry(o) ==
    /\ IsConnected(o)
    /\ objs' = [objs EXCEPT ![o] = Some([Obj(o) EXCEPT !.connected = FALSE])]
    /\ last' = Step("onDisconnected", Obj(o).user, [session |-> o], "ok", <<>>)
    /\ UNCHANGED <<activeUserStates, persistentUserSettings, calls>>

\* variant of onDisconnected: the whole map of active states is cleared
onDisconnected_ForgetsAll(o) ==
    /\ IsConnected(o)
    /\ LET userId == Obj(o).user IN
       /\ activeUserStates' = [u \in DOMAIN activeUserStates |-> 0]
       /\ objs' = Heap([objs EXCEPT ![o] = None], activeUserStates')
       /\ calls' = BagOfAll(LAMBDA c : Closed(c, o), calls)
       /\ last' = Step("onDisconnected", userId, [session |-> o], "ok", <<>>)
    /\ UNCHANGED persistentUserSettings

\* session.events.onDisconnected of session o
onDisconnected(o) ==
    /\ IsConnected(o)
    /\ LET userId == Obj(o).user IN
       /\ activeUserStates' = [activeUserStates EXCEPT ![userId] = 0]
       /\ objs' = Heap([objs EXCEPT ![o] = None], activeUserStates')
       /\ calls' = BagOfAll(LAMBDA c : Closed(c, o), calls)
       /\ last' = Step("onDisconnected", userId, [session |-> o], "ok", <<>>)
    /\ UNCHANGED persistentUserSettings

\* the status events a device pushes; errorDetails comes with an error, and
\* may still be in an event whose status is stopped
StatusEvents ==
    {[status |-> s, errorDetails |-> IF s = "error" THEN Some("device error") ELSE None]
        : s \in Statuses}
    \cup {[status |-> "stopped", errorDetails |-> Some("device error")]}

\* variant of onStatus: an event for a user with no state is shown on the device
onStatus_Reports(o, status) ==
    /\ IsConnected(o)
    /\ LET userId == Obj(o).user
           cur == activeUserStates[userId]
       IN /\ objs' = IF cur # 0
                     THEN [objs EXCEPT ![cur] =
                              Some([Obj(cur) EXCEPT !.streamStatus = status])]
                     ELSE objs
          /\ last' = Step("onStatus", userId, [session |-> o],
                          IF cur # 0 THEN "ok" ELSE "discarded", <<Display(o)>>)
    /\ UNCHANGED <<activeUserStates, persistentUserSettings, calls>>

\* variant of onStatus: a stored error status is kept until the stream stops
onStatus_KeepsError(o, status) ==
    /\ IsConnected(o)
    /\ LET userId == Obj(o).user
           cur == activeUserStates[userId]
       IN IF cur # 0
          THEN /\ objs' = [objs EXCEPT ![cur] =
                       Some([Obj(cur) EXCEPT !.streamStatus =
                           IF @.status = "error" /\ status.status # "stopped"
                           THEN @ ELSE status])]
               /\ last' = Step("onStatus", userId, [session |-> o],
                               "ok", <<Display(o)>>)
          ELSE /\ objs' = objs
               /\ last' = Step("onStatus", userId, [session |-> o],
                               "discarded", <<>>)
    /\ UNCHANGED <<activeUserStates, persistentUserSettings, calls>>

\* session.streaming.onStatus of session o
onStatus(o, status) ==
    /\ IsConnected(o)
    /\ LET userId == Obj(o).user
           cur == activeUserStates[userId]
       IN IF cur # 0
          THEN /\ objs' = [objs EXCEPT ![cur] =
                       Some([Obj(cur) EXCEPT !.streamStatus =
                           IF status.status = "stopped"
                           THEN [status EXCEPT !.status = "stopped"]
                           ELSE status])]
               /\ last' = Step("onStatus", userId, [session |-> o],
                               "ok", <<Display(o)>>)
          ELSE /\ objs' = objs
               /\ last' = Step("onStatus", userId, [session |-> o],
                               "discarded", <<>>)
    /\ UNCHANGED <<activeUserStates, persistentUserSettings, calls>>

\* session.events.onConnected of session o, up to its await
onConnected(o) ==
    /\ IsConnected(o)
    /\ calls' = Suspend([kind |-> "onConnected", user |-> Obj(o).user, obj |-> o,
                         pc |-> "transport"])
    /\ last' = Step("onConnected", Obj(o).user, [session |-> o], "pending",
                    <<Display(o), RequestStream(o, Obj(o).rtmpUrl)>>)
    /\ UNCHANGED <<activeUserStates, persistentUserSettings, objs>>

VoiceCommands == {"stop streaming", "start streaming"}

\* session.events.onTranscription of session o with a final text, up to its await
onTranscription(o, text) ==
    /\ IsConnected(o)
    /\ IF text = "stop streaming"
       THEN /\ calls' = Suspend([kind |-> "voiceStop", user |-> Obj(o).user, obj |-> o,
                                 pc |-> "transport"])
            /\ last' = Step("onTranscription", Obj(o).user,
                            [session |-> o, text |-> text], "pending",
                            <<Display(o), Display(o), StopStream(o)>>)
       ELSE /\ calls' = Suspend([kind |-> "voiceStart", user |-> Obj(o).user, obj |-> o,
                                 pc |-> "transport"])
            /\ last' = Step("onTranscription", Obj(o).user,
                            [session |-> o, text |-> text], "pending",
                            <<Display(o), Display(o), RequestStream(o, Obj(o).rtmpUrl)>>)
    /\ UNCHANGED <<activeUserStates, persistentUserSettings, objs>>

----------------------------------------------------------------------------
(* Commands of ExampleAugmentOSApp (index.ts) *)

\* variant of setRtmpUrlForUser: a URL of another scheme is rejected
setRtmpUrlForUser_RtmpOnly(userId, newUrl) ==
    LET o == activeUserStates[userId] IN
    IF newUrl = EmptyUrl \/ ~startsWith(newUrl, "rtmp://")
    THEN /\ last' = Step("setRtmpUrl", userId, <<>>, "InvalidUrl", <<>>)
         /\ UNCHANGED <<activeUserStates, persistentUserSettings, objs, calls>>
    ELSE /\ persistentUserSettings' =
                updatedPersistent(userId, [k \in {"rtmpUrl"} |-> Some(newUrl)])
         /\ objs' = IF o # 0
                    THEN [objs EXCEPT ![o] = Some([Obj(o) EXCEPT !.rtmpUrl = newUrl])]
                    ELSE objs
         /\ last' = Step("setRtmpUrl", userId, [rtmpUrl |-> Some(newUrl)], "ok",
                         IF o # 0 THEN <<Display(o)>> ELSE <<>>)
         /\ UNCHANGED <<activeUserStates, calls>>

\* setRtmpUrlForUser(userId, newUrl)
setRtmpUrlForUser(userId, newUrl) ==
    LET args == [rtmpUrl |-> Some(newUrl)]
        o == activeUserStates[userId]
    IN
    IF newUrl = EmptyUrl
    THEN /\ last' = Step("setRtmpUrl", userId, <<>>, "InvalidUrl", <<>>)
         /\ UNCHANGED <<activeUserStates, persistentUserSettings, objs, calls>>
    ELSE /\ persistentUserSettings' =
                updatedPersistent(userId, [k \in {"rtmpUrl"} |-> Some(newUrl)])
         /\ IF o # 0
            THEN /\ objs' = [objs EXCEPT ![o] = Some([Obj(o) EXCEPT !.rtmpUrl = newUrl])]
                 /\ last' = Step("setRtmpUrl", userId, args, "ok", <<Display(o)>>)
            ELSE /\ objs' = objs
                 /\ last' = Step("setRtmpUrl", userId, args, "ok", <<>>)
         /\ UNCHANGED <<activeUserStates, calls>>

\* updatePersistentSettingsForUser(userId, settings), called as a command
updatePersistentSettingsForUser(userId, settings) ==
    /\ persistentUserSettings' = updatedPersistent(userId, settings)
    /\ objs' = updatedObjs(objs, userId, settings)
    /\ last' = Step("updateSettings", userId, settings, "ok", <<>>)
    /\ UNCHANGED <<activeUserStates, calls>>

\* the settings startStreamForUser saves: { streamMode: mode, faceHighlightingEnabled }
\* variant of StartSettings: only the mode is saved
StartSettings_ModeOnly(mode, highlightFaces) ==
    [k \in {"streamMode"} |-> Some(mode)]

StartSettings(mode, highlightFaces) ==
    [k \in {"streamMode", "faceHighlightingEnabled"} |->
        IF k = "streamMode" THEN Some(mode) ELSE highlightFaces]

\* variant of configBody: the forwarding target is sent in every mode
configBody_AlwaysForwards(mode, urlToUse) ==
    [output_hls |-> IF mode = "hls" THEN Some(TRUE) ELSE None,
     output_rtmp |-> Some(urlToUse)]

\* configBody of the face recognition request (its output selector)
configBody(mode, urlToUse) ==
    IF mode = "hls"
    THEN [output_hls |-> Some(TRUE), output_rtmp |-> None]
    ELSE [output_hls |-> None, output_rtmp |-> Some(urlToUse)]

\* const mode = streamMode || 'hls'
resolveMode(streamMode) == IF streamMode = None THEN "hls" ELSE The(streamMode)

\* variant of resolveHighlight: the flag is taken as given in every mode
resolveHighlight_AsGiven(mode, highlightFaces) == highlightFaces

\* if (mode === 'hls') highlightFaces = true
resolveHighlight(mode, highlightFaces) ==
    IF mode = "hls" THEN Some(TRUE) ELSE highlightFaces

\* variant of resolveUrl: the session's URL is preferred to the requested one
resolveUrl_StoredFirst(rtmpUrl, state) ==
    IF state.rtmpUrl # EmptyUrl THEN state.rtmpUrl
    ELSE IF Truthy(rtmpUrl) THEN The(rtmpUrl)
    ELSE defaultRtmpUrl

\* rtmpUrl || userState.rtmpUrl || this.defaultRtmpUrl
resolveUrl(rtmpUrl, state) ==
    IF Truthy(rtmpUrl) THEN The(rtmpUrl)
    ELSE IF state.rtmpUrl # EmptyUrl THEN state.rtmpUrl
    ELSE defaultRtmpUrl

\* the simulation branch of startStreamForUser
startSimulation(userId, o, state, highlightFaces) ==
    LET s2 == [state EXCEPT !.faceHighlightingEnabled = highlightFaces]
        settings == StartSettings("simulation", highlightFaces)
    IN /\ persistentUserSettings' = updatedPersistent(userId, settings)
       /\ objs' = updatedObjs([objs EXCEPT ![o] = Some(s2)], userId, settings)
       /\ UNCHANGED <<activeUserStates, calls>>

\* startStreamForUser(userId, rtmpUrl, highlightFaces, streamMode), up to its first await
startStreamForUser(userId, rtmpUrl, highlightFaces, streamMode) ==
    LET args == [rtmpUrl |-> rtmpUrl, highlightFaces |-> highlightFaces,
                 streamMode |-> streamMode]
        o == activeUserStates[userId]
    IN
    IF o = 0
    THEN /\ last' = Step("startStream", userId, <<>>, "NoActiveSession", <<>>)
         /\ UNCHANGED <<activeUserStates, persistentUserSettings, objs, calls>>
    ELSE
    LET mode == resolveMode(streamMode)
        s1 == [Obj(o) EXCEPT !.streamMode = mode]
    IN
    IF mode = "simulation"
    THEN /\ startSimulation(userId, o, s1, highlightFaces)
         /\ last' = Step("startStream", userId, args, "ok", <<>>)
    ELSE LET hf == resolveHighlight(mode, highlightFaces)
             urlToUse == resolveUrl(rtmpUrl, s1)
             s2 == [s1 EXCEPT !.faceHighlightingEnabled = hf]
             settings == StartSettings(mode, hf)
             os == updatedObjs([objs EXCEPT ![o] = Some(s2)], userId, settings)
         IN /\ IF hf = Some(TRUE)
               THEN /\ last' = Step("startStream", userId, args, "pending",
                                    <<FetchConfig(streamKey(userId),
                                                  configBody(mode, urlToUse))>>)
                    /\ objs' = os
                    /\ calls' = Suspend([kind |-> "startStream", user |-> userId,
                                         obj |-> o, pc |-> "fetch", mode |-> mode])
               ELSE /\ last' = Step("startStream", userId, args, "pending",
                                    <<Display(o), RequestStream(o, urlToUse)>>)
                    /\ objs' = [os EXCEPT ![o] =
                                   Some([The(os[o]) EXCEPT !.rtmpUrl = urlToUse])]
                    /\ calls' = Suspend([kind |-> "startStream", user |-> userId,
                                         obj |-> o, pc |-> "transport", mode |-> mode])
            /\ persistentUserSettings' = updatedPersistent(userId, settings)
            /\ UNCHANGED activeUserStates

\* stopStreamForUser(userId), up to its await
stopStreamForUser(userId) ==
    LET o == activeUserStates[userId] IN
    IF o = 0
    THEN /\ last' = Step("stopStream", userId, <<>>, "NoActiveSession", <<>>)
         /\ UNCHANGED <<activeUserStates, persistentUserSettings, objs, calls>>
    ELSE /\ calls' = Suspend([kind |-> "stopStream", user |-> userId, obj |-> o,
                              pc |-> "transport"])
         /\ last' = Step("stopStream", userId, <<>>, "pending",
                         <<Display(o), StopStream(o)>>)
         /\ UNCHANGED <<activeUserStates, persistentUserSettings, objs>>

----------------------------------------------------------------------------
(* Completion of the awaited external calls *)

\* the responses the fetch of the face recognition configuration can resolve with
FetchResponses == FetchFailures \cup {"ok", "ok with output_url"}

\* a second playback URL the server may answer with
otherPlaybackUrl(key) == <<"https://", "stream.okgodoit.com/hls2/">> \o key

\* configResult.output_url of an ok response
output_url(response, key) ==
    IF response = "ok with output_url" THEN Some(playbackUrl(key))
    ELSE IF response = "ok with another output_url" THEN Some(otherPlaybackUrl(key))
    ELSE None

\* variant of storedPlayback: the playback URL is stored in every mode
storedPlayback_AnyMode(state, mode, url) ==
    IF url # None THEN [state EXCEPT !.hlsUrl = url] ELSE state

\* if (configResult.output_url && mode === 'hls') userState.hlsUrl = ...
storedPlayback(state, mode, url) ==
    IF url # None /\ mode = "hls" THEN [state EXCEPT !.hlsUrl = url] ELSE state

\* variant of FetchResolves: the session state keeps the URL it had
FetchResolves_KeepsUrl(c, response) ==
    /\ c \in BagToSet(calls)
    /\ c.pc = "fetch"
    /\ LET o == c.obj
           key == streamKey(c.user)
           args == [session |-> o, response |-> response, mode |-> c.mode]
       IN IF response \in FetchFailures
          THEN /\ calls' = Resume(c)
               /\ objs' = objs
               /\ last' = Thrown(Step("startStream.fetch", c.user, args,
                                      "HighlightConfigError", <<>>),
                                 configErrorMessage(response))
          ELSE LET urlToUse == ingestUrl(key)
                   s1 == storedPlayback(Obj(o), c.mode, output_url(response, key))
                   s2 == s1
               IN /\ calls' = Suspend([c EXCEPT !.pc = "transport"]) (-) SetToBag({c})
                  /\ objs' = Heap(Written(objs, o, s2), activeUserStates)
                  /\ last' = Step("startStream.fetch", c.user, args, "pending",
                                  <<Display(o), RequestStream(o, urlToUse)>>)
    /\ UNCHANGED <<activeUserStates, persistentUserSettings>>

\* the fetch of call c resolves with a response (index.ts, after the await)
FetchResolves(c, response) ==
    /\ c \in BagToSet(calls)
    /\ c.pc = "fetch"
    /\ LET o == c.obj
           key == streamKey(c.user)
           args == [session |-> o, response |-> response, mode |-> c.mode]
       IN IF response \in FetchFailures
          THEN /\ calls' = Resume(c)
               /\ objs' = objs
               /\ last' = Thrown(Step("startStream.fetch", c.user, args,
                                      "HighlightConfigError", <<>>),
                                 configErrorMessage(response))
          ELSE LET urlToUse == ingestUrl(key)
                   s1 == storedPlayback(Obj(o), c.mode, output_url(response, key))
                   s2 == [s1 EXCEPT !.rtmpUrl = urlToUse]
               IN /\ calls' = Suspend([c EXCEPT !.pc = "transport"]) (-) SetToBag({c})
                  /\ objs' = Heap(Written(objs, o, s2), activeUserStates)
                  /\ last' = Step("startStream.fetch", c.user, args, "pending",
                                  <<Display(o), RequestStream(o, urlToUse)>>)
    /\ UNCHANGED <<activeUserStates, persistentUserSettings>>

\* what a transport step records: the session object the call holds, whether
\* the transport accepted the command, and the status that object had when the
\* awaited call settled (absent for a disconnected session's object)
transportArgs(c, accepted) ==
    [session |-> c.obj, accepted |-> accepted,
     was |-> IF c.obj = ClosedSession THEN None ELSE Some(Obj(c.obj).streamStatus)]

\* variant of TransportResolves: a rejection is logged and nothing else
TransportResolves_Swallows(c, accepted) ==
    /\ c \in BagToSet(calls)
    /\ c.pc = "transport"
    /\ calls' = Resume(c)
    /\ last' = Step(c.kind \o ".transport", c.user,
                    transportArgs(c, accepted),
                    IF accepted THEN "ok" ELSE "swallowed", <<>>)
    /\ UNCHANGED <<activeUserStates, persistentUserSettings, objs>>

\* variant of TransportResolves: an accepted command marks the stream stopped
TransportResolves_MarksStopped(c, accepted) ==
    /\ c \in BagToSet(calls)
    /\ c.pc = "transport"
    /\ calls' = Resume(c)
    /\ objs' = Heap(Written(objs, c.obj,
                        [Obj(c.obj) EXCEPT !.streamStatus =
                            IF accepted THEN getInitialStreamStatus
                            ELSE ErrorStatus(TransportErrorMessage)]),
                    activeUserStates)
    /\ last' = IF accepted
               THEN Step(c.kind \o ".transport", c.user,
                         transportArgs(c, accepted), "ok", <<>>)
               ELSE Thrown(Step(c.kind \o ".transport", c.user,
                                transportArgs(c, accepted),
                                "TransportError", <<Display(c.obj)>>),
                           TransportErrorMessage)
    /\ UNCHANGED <<activeUserStates, persistentUserSettings>>

\* variant of TransportResolves: an accepted requestStream marks the stream active
TransportResolves_Optimistic(c, accepted) ==
    /\ c \in BagToSet(calls)
    /\ c.pc = "transport"
    /\ calls' = Resume(c)
    /\ objs' = Heap(Written(objs, c.obj,
                        [Obj(c.obj) EXCEPT !.streamStatus =
                            IF ~accepted THEN ErrorStatus(TransportErrorMessage)
                            ELSE IF c.kind = "startStream"
                                 THEN [status |-> "active", errorDetails |-> None]
                                 ELSE @]),
                    activeUserStates)
    /\ last' = IF accepted
               THEN Step(c.kind \o ".transport", c.user,
                         transportArgs(c, accepted), "ok", <<>>)
               ELSE Thrown(Step(c.kind \o ".transport", c.user,
                                transportArgs(c, accepted),
                                "TransportError", <<Display(c.obj)>>),
                           TransportErrorMessage)
    /\ UNCHANGED <<activeUserStates, persistentUserSettings>>

\* variant of TransportResolves: a rejected command is sent once more
TransportResolves_Retries(c, accepted) ==
    /\ c \in BagToSet(calls)
    /\ c.pc = "transport"
    /\ IF accepted
       THEN /\ calls' = Resume(c)
            /\ last' = Step(c.kind \o ".transport", c.user, transportArgs(c, accepted),
                            "ok", <<>>)
       ELSE /\ calls' = calls
            /\ last' = Step(c.kind \o ".transport", c.user, transportArgs(c, accepted),
                            "pending",
                            <<IF c.kind \in {"stopStream", "voiceStop"}
                              THEN StopStream(c.obj)
                              ELSE RequestStream(c.obj, defaultRtmpUrl)>>)
    /\ UNCHANGED <<activeUserStates, persistentUserSettings, objs>>

\* the transport call (requestStream / stopStream) of call c resolves or rejects
TransportResolves(c, accepted) ==
    /\ c \in BagToSet(calls)
    /\ c.pc = "transport"
    /\ LET o == c.obj
           args == transportArgs(c, accepted)
           thrown == c.kind \in {"startStream", "stopStream"}
       IN IF accepted
          THEN /\ calls' = Resume(c)
               /\ objs' = objs
               /\ last' = Step(c.kind \o ".transport", c.user, args, "ok", <<>>)
          ELSE /\ calls' = Resume(c)
               /\ objs' = Heap(Written(objs, o,
                                   [Obj(o) EXCEPT !.streamStatus =
                                       ErrorStatus(TransportErrorMessage)]),
                               activeUserStates)
               /\ last' = IF thrown
                          THEN Thrown(Step(c.kind \o ".transport", c.user, args,
                                           "TransportError", <<Display(o)>>),
                                      TransportErrorMessage)
                          ELSE Step(c.kind \o ".transport", c.user, args,
                                    "swallowed", <<Display(o)>>)
    /\ UNCHANGED <<activeUserStates, persistentUserSettings>>

----------------------------------------------------------------------------
(* The Express routes (part_000), each with the command it calls *)

SetUrls == {None, Some(EmptyUrl), Some(UrlA), Some(UrlB)}
StartUrls == {None, Some(UrlA)}
OptFlags == {None, Some(TRUE), Some(FALSE)}
OptModes == {None} \cup {Some(m) : m \in Modes}

\* variant of PostRtmpUrl: any string in the body is stored, the empty one too
PostRtmpUrl_Unchecked(userId, rtmpUrl) ==
    IF rtmpUrl = None
    THEN /\ last' = Step("setRtmpUrl", userId, <<>>, "InvalidUrl", <<>>)
         /\ UNCHANGED <<activeUserStates, persistentUserSettings, objs, calls>>
    ELSE /\ persistentUserSettings' =
                updatedPersistent(userId, [k \in {"rtmpUrl"} |-> rtmpUrl])
         /\ objs' = updatedObjs(objs, userId, [k \in {"rtmpUrl"} |-> rtmpUrl])
         /\ last' = Step("setRtmpUrl", userId, [rtmpUrl |-> rtmpUrl], "ok", <<>>)
         /\ UNCHANGED <<activeUserStates, calls>>

\* POST /api/rtmp-url
PostRtmpUrl(userId, rtmpUrl) ==
    IF ~Truthy(rtmpUrl)
    THEN /\ last' = Step("setRtmpUrl", userId, <<>>, "InvalidUrl", <<>>)
         /\ UNCHANGED <<activeUserStates, persistentUserSettings, objs, calls>>
    ELSE setRtmpUrlForUser(userId, The(rtmpUrl))

\* POST /api/stream-preferences
PostStreamPreferences(userId, streamMode, faceHighlightingEnabled) ==
    IF streamMode # None /\ The(streamMode) \notin Modes
    THEN /\ last' = Step("updateSettings", userId, <<>>, "InvalidMode", <<>>)
         /\ UNCHANGED <<activeUserStates, persistentUserSettings, objs, calls>>
    ELSE LET given == {k \in {"streamMode"} : streamMode # None}
                      \cup {k \in {"faceHighlightingEnabled"} :
                                faceHighlightingEnabled # None}
             settings == [k \in given |->
                             IF k = "streamMode" THEN streamMode
                             ELSE faceHighlightingEnabled]
         IN updatePersistentSettingsForUser(userId, settings)

\* POST /api/start-stream
PostStartStream(userId, rtmpUrl, highlightFaces, streamMode) ==
    IF streamMode = Some("simulation")
    THEN /\ last' = Step("startStream", userId, <<>>, "demo", <<>>)
         /\ UNCHANGED <<activeUserStates, persistentUserSettings, objs, calls>>
    ELSE startStreamForUser(userId, rtmpUrl, highlightFaces, streamMode)

\* variant of PostStopStream: the route without its simulation check
PostStopStream_AlwaysStops(userId) == stopStreamForUser(userId)

\* POST /api/stop-stream
PostStopStream(userId) ==
    IF getStreamModeForUser(userId) = "simulation"
    THEN /\ last' = Step("stopStream", userId, <<>>, "demo", <<>>)
         /\ UNCHANGED <<activeUserStates, persistentUserSettings, objs, calls>>
    ELSE stopStreamForUser(userId)

----------------------------------------------------------------------------
(* Next-state relation.  The environment's choices are drawn from the sets  *)
(* and kept within the limits an action is given: `sessions` device         *)
(* sessions connected at once, `pending` calls suspended at once.           *)

Connected(os) == {o \in ObjIds : os[o] # None /\ The(os[o]).connected}

Connect(users, sessions) ==
    \E u \in users : onSession(u) /\ Cardinality(Connected(objs')) <= sessions
Disconnect == \E o \in ObjIds : onDisconnected(o)
StatusPush(events) == \E o \in ObjIds, e \in events : onStatus(o, e)
GlassesConnected(pending) ==
    \E o \in ObjIds : onConnected(o) /\ BagCardinality(calls') <= pending
Voice(commands, pending) ==
    \E o \in ObjIds, t \in commands :
        onTranscription(o, t) /\ BagCardinality(calls') <= pending
SetRtmpUrl(users, urls) == \E u \in users, url \in urls : PostRtmpUrl(u, url)
UpdateSettings(users, modes, flags) ==
    \E u \in users, m \in modes, f \in flags : PostStreamPreferences(u, m, f)
StartStream(users, urls, flags, modes, pending) ==
    \E u \in users, url \in urls, f \in flags, m \in modes :
        PostStartStream(u, url, f, m) /\ BagCardinality(calls') <= pending
StopStreamCmd(users, pending) ==
    \E u \in users : PostStopStream(u) /\ BagCardinality(calls') <= pending
FetchDone(responses) ==
    \E c \in BagToSet(calls), r \in responses : FetchResolves(c, r)
TransportDone == \E c \in BagToSet(calls), a \in BOOLEAN : TransportResolves(c, a)

\* The whole model.
Next ==
    \/ Connect(Users, MaxSessions)
    \/ Disconnect
    \/ StatusPush(StatusEvents)
    \/ GlassesConnected(MaxCalls)
    \/ Voice(VoiceCommands, MaxCalls)
    \/ SetRtmpUrl(Users, SetUrls)
    \/ UpdateSettings(Users, OptModes \cup {Some("dash")}, OptFlags)
    \/ StartStream(Users, StartUrls, OptFlags, OptModes, MaxCalls)
    \/ StopStreamCmd(Users, MaxCalls)
    \/ FetchDone(FetchResponses)
    \/ TransportDone

Spec == Init /\ [][Next]_vars

\* One user, one device session connected at a time, one call suspended at a
\* time; a disconnect and a reconnect may happen while the call is suspended.
NextCore ==
    \/ Connect(Users, MaxSessions - 1)
    \/ Disconnect
    \/ StatusPush(StatusEvents)
    \/ GlassesConnected(MaxCalls - 1)
    \/ Voice(VoiceCommands, MaxCalls - 1)
    \/ SetRtmpUrl(Users, SetUrls)
    \/ UpdateSettings(Users, OptModes \cup {Some("dash")}, OptFlags)
    \/ StartStream(Users, StartUrls, OptFlags, OptModes, MaxCalls - 1)
    \/ StopStreamCmd(Users, MaxCalls - 1)
    \/ FetchDone(FetchResponses)
    \/ TransportDone

SpecCore == Init /\ [][NextCore]_vars

\* The stream key as a function of the user id, over all ids up to MaxIdLen
\* characters: the ids are drawn first, then the keys of both are derived.
KeyIds == UNION {[1..n -> IdChars] : n \in 1..MaxIdLen}

InitKeys ==
    /\ activeUserStates = [u \in Users |-> 0]
    /\ persistentUserSettings = [u \in Users |-> None]
    /\ objs = [o \in ObjIds |-> None]
    /\ calls = EmptyBag
    /\ \E a, b \in KeyIds : last = Recorded("ids", a, [other |-> b], "given", <<>>, "untracked")

deriveStreamKeys ==
    /\ last.op = "ids"
    /\ last' = Step("streamKey", last.user, last.args, "ok",
                    <<streamKey(last.user), streamKey(last.args.other)>>)
    /\ UNCHANGED <<activeUserStates, persistentUserSettings, objs, calls>>

NextKeys == deriveStreamKeys

SpecKeys == InitKeys /\ [][NextKeys]_vars

\* One user, one device session, two calls suspended at a time: a start and a
\* stop (or two of either) in flight together.
NextCalls ==
    \/ Connect(Users, MaxSessions - 1)
    \/ Disconnect
    \/ StatusPush(StatusEvents)
    \/ StartStream(Users, {None}, {Some(TRUE), Some(FALSE)}, {Some("rtmp")}, MaxCalls)
    \/ StopStreamCmd(Users, MaxCalls)
    \/ FetchDone({"not ok", "ok"})
    \/ TransportDone

SpecCalls == Init /\ [][NextCalls]_vars

\* One user, one device session, one call suspended at a time; StartStream
\* with every kind of rtmpUrl argument: absent, the empty string, a URL.
NextStarts ==
    \/ Connect(Users, MaxSessions - 1)
    \/ Disconnect
    \/ SetRtmpUrl(Users, {Some(UrlA)})
    \/ StartStream(Users, {None, Some(EmptyUrl), Some(UrlB)}, OptFlags,
                   {Some("rtmp"), Some("hls")}, MaxCalls - 1)
    \/ FetchDone({"not ok", "ok", "ok with output_url", "ok with another output_url"})
    \/ TransportDone

SpecStarts == Init /\ [][NextStarts]_vars

\* One user who connects, disconnects and reconnects, with the history of
\* disconnects, status events and rejected commands kept in the step record.
InitTracked ==
    /\ activeUserStates = [u \in Users |-> 0]
    /\ persistentUserSettings = [u \in Users |-> None]
    /\ objs = [o \in ObjIds |-> None]
    /\ calls = EmptyBag
    /\ last = Recorded("init", <<>>, <<>>, "ok", <<>>, "none")

NextReconnects ==
    \/ Connect(Users, MaxSessions - 1)
    \/ Disconnect
    \/ StatusPush(StatusEvents)
    \/ StartStream(Users, {None}, {Some(FALSE)}, {Some("rtmp")}, MaxCalls - 1)
    \/ StopStreamCmd(Users, MaxCalls - 1)
    \/ TransportDone

SpecReconnects == InitTracked /\ [][NextReconnects]_vars

\* Two users, whose ids give the same stream key, with one device session
\* each or two of one user, one call suspended at a time.
OtherUser == <<"a", "_", "b">>
AllUsers == Users \cup {OtherUser}

InitUsers ==
    /\ activeUserStates = [u \in AllUsers |-> 0]
    /\ persistentUserSettings = [u \in AllUsers |-> None]
    /\ objs = [o \in ObjIds |-> None]
    /\ calls = EmptyBag
    /\ last = Recorded("init", <<>>, <<>>, "ok", <<>>, "untracked")

NextUsers ==
    \/ Connect(AllUsers, MaxSessions)
    \/ Disconnect
    \/ StatusPush({[status |-> "active", errorDetails |-> None]})
    \/ SetRtmpUrl(AllUsers, {Some(UrlA)})
    \/ UpdateSettings(AllUsers, {Some("rtmp")}, {None})
    \/ StartStream(AllUsers, {None}, {Some(TRUE)}, {Some("rtmp")}, MaxCalls - 1)
    \/ StopStreamCmd(AllUsers, MaxCalls - 1)
    \/ FetchDone({"ok"})
    \/ TransportDone

SpecUsers == InitUsers /\ [][NextUsers]_vars

\* Two device sessions connected at a time (a second connect of a user before
\* the first session's disconnect is delivered), with few commands.
NextSessions ==
    \/ Connect(Users, MaxSessions)
    \/ Disconnect
    \/ StatusPush({e \in StatusEvents : e.status = "active"})
    \/ GlassesConnected(MaxCalls - 1)
    \/ SetRtmpUrl(Users, {Some(UrlB)})
    \/ StartStream(Users, {None}, {None}, {None, Some("rtmp")}, MaxCalls - 1)
    \/ StopStreamCmd(Users, MaxCalls - 1)
    \/ FetchDone({"not ok", "ok with output_url"})
    \/ TransportDone

SpecSessions == Init /\ [][NextSessions]_vars

----------------------------------------------------------------------------
(* Properties *)

Registered(u) == activeUserStates[u] # 0
SessionState(u) == Obj(activeUserStates[u])
DeviceConnected(u) == \E o \in ObjIds : IsConnected(o) /\ Obj(o).user = u
Issued(types) == {i \in DOMAIN last.effects : last.effects[i].type \in types}

\* C1: in every reachable state a SessionState entry exists for a user if and
\* only if a device session of that user is currently connected, also when a
\* second session of the user connects before the first one's disconnect.
C1_SessionStateIffConnected ==
    \A u \in Users : Registered(u) <=> DeviceConnected(u)

\* C2: a disconnect of a user's session removes the user's SessionState and
\* leaves the PersistentSettings as they were, and no step ever deletes a
\* PersistentSettings entry that exists.
C2_DisconnectKeepsSettings ==
    [][ /\ last'.op = "onDisconnected" =>
               /\ activeUserStates'[last'.user] = 0
               /\ persistentUserSettings' = persistentUserSettings
        /\ \A u \in Users : persistentUserSettings[u] # None =>
               persistentUserSettings'[u] # None ]_vars

C2_Witness ==
    /\ last.op = "onDisconnected"
    /\ ~Registered(last.user)
    /\ persistentUserSettings[last.user] # None
    /\ The(persistentUserSettings[last.user]).streamMode = Some("rtmp")

\* C3: the SessionState created by a connect has rtmpUrl, streamMode and
\* faceHighlightingEnabled equal to the user's PersistentSettings values (the
\* default URL, hls and true where nothing is stored), status stopped and no
\* hlsUrl.
C3_SettingsSurviveReconnect ==
    last.op = "onSession" =>
        LET p == persistentUserSettings[last.user]
            st == SessionState(last.user)
        IN /\ Registered(last.user)
           /\ st.rtmpUrl = (IF p = None THEN defaultRtmpUrl ELSE The(p).rtmpUrl)
           /\ st.streamMode = (IF p = None \/ The(p).streamMode = None
                               THEN "hls" ELSE The(The(p).streamMode))
           /\ st.faceHighlightingEnabled =
                  (IF p = None \/ The(p).faceHighlightingEnabled = None
                   THEN Some(TRUE) ELSE The(p).faceHighlightingEnabled)
           /\ st.streamStatus.status = "stopped"
           /\ st.hlsUrl = None

C3_Witness ==
    /\ last.op = "onSession"
    /\ persistentUserSettings[last.user] # None
    /\ The(persistentUserSettings[last.user]).rtmpUrl = UrlB
    /\ The(persistentUserSettings[last.user]).streamMode = Some("rtmp")
    /\ The(persistentUserSettings[last.user]).faceHighlightingEnabled = Some(FALSE)
    /\ SessionState(last.user).streamMode = "rtmp"

\* C4: StartStream for a user with no SessionState fails with NoActiveSession
\* for every url, flag and mode, changes neither the PersistentSettings nor
\* the registry and issues no highlighting-service or transport call.
C4_StartWithoutSessionFails ==
    [][ \A u \in Users :
          (~Registered(u) /\ last'.op = "startStream" /\ last'.user = u) =>
              /\ last'.outcome = "NoActiveSession"
              /\ last'.effects = <<>>
              /\ UNCHANGED <<persistentUserSettings, activeUserStates>> ]_vars

\* C5: in every reachable state every SessionState and every PersistentSettings
\* record whose streamMode is hls has face highlighting enabled.
C5_HlsImpliesHighlighting ==
    \A u \in Users :
        /\ (persistentUserSettings[u] # None
            /\ The(persistentUserSettings[u]).streamMode = Some("hls"))
               => The(persistentUserSettings[u]).faceHighlightingEnabled # Some(FALSE)
        /\ (Registered(u) /\ SessionState(u).streamMode = "hls")
               => SessionState(u).faceHighlightingEnabled # Some(FALSE)

\* C6: StartStream for a connected user with mode hls (explicit or by default)
\* and highlighting flag false or absent is not rejected, stores
\* faceHighlightingEnabled = true in the SessionState and in the
\* PersistentSettings, and takes the highlighting-service path.
C6_HlsForcesHighlighting ==
    [][ \A u \in Users, url \in StartUrls :
        \A f \in {None, Some(FALSE)}, m \in {None, Some("hls")} :
          (/\ Registered(u)
           /\ last'.op = "startStream" /\ last'.user = u
           /\ PostStartStream(u, url, f, m)) =>
              /\ last'.outcome = "pending"
              /\ last'.effects =
                     <<FetchConfig(streamKey(u),
                                   [output_hls |-> Some(TRUE), output_rtmp |-> None])>>
              /\ Registered(u)'
              /\ SessionState(u)'.streamMode = "hls"
              /\ SessionState(u)'.faceHighlightingEnabled = Some(TRUE)
              /\ persistentUserSettings'[u] # None
              /\ The(persistentUserSettings'[u]).streamMode = Some("hls")
              /\ The(persistentUserSettings'[u]).faceHighlightingEnabled = Some(TRUE)
      ]_vars

C6_Witness ==
    /\ last.op = "startStream"
    /\ last.outcome = "pending"
    /\ last.args # <<>>
    /\ last.args.highlightFaces = Some(FALSE)
    /\ last.args.streamMode = None
    /\ Issued({"fetchConfig"}) # {}
    /\ SessionState(last.user).faceHighlightingEnabled = Some(TRUE)
    /\ The(persistentUserSettings[last.user]).faceHighlightingEnabled = Some(TRUE)

\* C7: StartStream with mode simulation for a connected user issues no
\* highlighting-service request and no transport command, returns success,
\* leaves the status as it was, and afterwards the PersistentSettings hold
\* streamMode simulation and the requested highlighting flag.
C7_SimulationStartPersists ==
    [][ \A u \in Users, url \in StartUrls, f \in OptFlags :
          (/\ Registered(u)
           /\ last'.op = "startStream" /\ last'.user = u
           /\ PostStartStream(u, url, f, Some("simulation"))) =>
              /\ last'.outcome \in {"ok", "demo"}
              /\ last'.effects = <<>>
              /\ Registered(u)'
              /\ SessionState(u)'.streamStatus = SessionState(u).streamStatus
              /\ persistentUserSettings'[u] # None
              /\ The(persistentUserSettings'[u]).streamMode = Some("simulation")
              /\ The(persistentUserSettings'[u]).faceHighlightingEnabled = f
      ]_vars

\* C8: no transport request-stream command and no highlighting-service request
\* is issued for a user whose current stream mode is simulation.
C8_SimulationIssuesNothing ==
    (/\ last.user \in Users
     /\ Registered(last.user)
     /\ SessionState(last.user).streamMode = "simulation")
        => Issued({"requestStream", "fetchConfig"}) = {}

\* C9: StopStream for a connected user whose current mode is simulation
\* succeeds at once, issues no transport stop-stream command and does not
\* change the status.
C9_SimulationStopIsImmediate ==
    [][ \A u \in Users :
          (/\ Registered(u)
           /\ SessionState(u).streamMode = "simulation"
           /\ last'.op = "stopStream" /\ last'.user = u) =>
              /\ last'.outcome = "demo"
              /\ last'.effects = <<>>
              /\ calls' = calls
              /\ Registered(u)'
              /\ SessionState(u)'.streamStatus = SessionState(u).streamStatus ]_vars

C9_Witness ==
    /\ last.op = "stopStream"
    /\ last.outcome = "demo"
    /\ Registered(last.user)
    /\ SessionState(last.user).streamMode = "simulation"
    /\ SessionState(last.user).streamStatus.status = "active"

\* C10: StopStream for a user with no SessionState fails with NoActiveSession
\* and issues no transport command, whatever stream mode is persisted.
C10_StopWithoutSessionFails ==
    [][ \A u \in Users :
          (~Registered(u) /\ last'.op = "stopStream" /\ last'.user = u) =>
              /\ last'.outcome = "NoActiveSession"
              /\ last'.effects = <<>> ]_vars

\* C11: when the highlighting-service configuration request of a StartStream
\* fails (network failure or non-success response), the call fails with an
\* error that carries the upstream detail, and the call issues no transport
\* request-stream command: it ends there.
C11_ConfigFailureFailsStart ==
    [][ \A c \in BagToSet(calls), r \in FetchFailures :
          (last'.op = "startStream.fetch" /\ FetchResolves(c, r)) =>
              /\ last'.outcome = "HighlightConfigError"
              /\ last'.detail = Some("Failed to configure face recognition: "
                                         \o fetchErrorMessage(r))
              /\ last'.effects = <<>>
              /\ calls' = calls (-) SetToBag({c}) ]_vars

C11_Witness ==
    /\ last.op = "startStream.fetch"
    /\ last.outcome = "HighlightConfigError"
    /\ last.args.response = "network failure"
    /\ last.detail = Some("Failed to configure face recognition: fetch failed")
    /\ Registered(last.user)
    /\ calls = EmptyBag

\* C12: when the highlighting-service configuration request of a StartStream
\* fails while the user's SessionState still exists, the SessionState's status
\* is error with the failure detail, and the error is returned to the caller.
C12_ConfigFailureSetsError ==
    (/\ last.op = "startStream.fetch"
     /\ last.outcome = "HighlightConfigError"
     /\ last.args.session # ClosedSession
     /\ activeUserStates[last.user] = last.args.session)
        => /\ last.detail # None
           /\ SessionState(last.user).streamStatus = ErrorStatus(The(last.detail))

\* a suspended call whose session state is still the registered one of its user
StillRegistered(c) == c.obj # ClosedSession /\ activeUserStates[c.user] = c.obj

\* C13: when the transport rejects the request-stream command of a StartStream
\* and the user's SessionState still exists, the registered SessionState's
\* status becomes error with errorDetails equal to the failure message, and
\* the StartStream call fails with that error.
C13_StartRejectionSetsError ==
    [][ \A c \in BagToSet(calls) :
          (/\ c.kind = "startStream" /\ c.pc = "transport"
           /\ StillRegistered(c)
           /\ last'.op = "startStream.transport"
           /\ TransportResolves(c, FALSE)) =>
              /\ Registered(c.user)'
              /\ SessionState(c.user)'.streamStatus =
                     [status |-> "error", errorDetails |-> Some(TransportErrorMessage)]
              /\ last'.outcome = "TransportError"
              /\ last'.detail = Some(TransportErrorMessage) ]_vars

C13_Witness ==
    /\ last.op = "startStream.transport"
    /\ last.outcome = "TransportError"
    /\ activeUserStates[last.user] = last.args.session
    /\ Registered(last.user)
    /\ SessionState(last.user).streamStatus.status = "error"
    /\ SessionState(last.user).streamStatus.errorDetails = Some(TransportErrorMessage)

\* C14: when the transport rejects the stop-stream command of a StopStream of
\* a connected user, the SessionState's status becomes error with the failure
\* detail and the call fails with that error; when the transport accepts it,
\* the status is left as it was.
C14_StopRejectionSetsError ==
    [][ \A c \in BagToSet(calls) :
          (/\ c.kind = "stopStream" /\ c.pc = "transport"
           /\ StillRegistered(c)
           /\ last'.op = "stopStream.transport") =>
              /\ TransportResolves(c, FALSE) =>
                     /\ SessionState(c.user)'.streamStatus =
                            [status |-> "error",
                             errorDetails |-> Some(TransportErrorMessage)]
                     /\ last'.outcome = "TransportError"
                     /\ last'.detail = Some(TransportErrorMessage)
              /\ TransportResolves(c, TRUE) =>
                     /\ SessionState(c.user)'.streamStatus =
                            SessionState(c.user).streamStatus
                     /\ last'.outcome = "ok" ]_vars

C14_Witness ==
    /\ last.op = "stopStream.transport"
    /\ last.outcome = "ok"
    /\ activeUserStates[last.user] = last.args.session
    /\ Registered(last.user)
    /\ SessionState(last.user).streamStatus.status = "active"

\* C15: if the user disconnects while a StartStream is suspended awaiting the
\* highlighting service, then at the completion of that request the
\* StartStream aborts with NoActiveSession: no request-stream command and no
\* display text is issued, nothing is written to a registered SessionState and
\* no SessionState entry is created.
C15_DisconnectAbortsStart ==
    [][ \A c \in BagToSet(calls), r \in FetchResponses \ FetchFailures :
          (/\ c.kind = "startStream" /\ c.pc = "fetch"
           /\ c.obj = ClosedSession
           /\ last'.op = "startStream.fetch"
           /\ FetchResolves(c, r)) =>
              /\ last'.outcome = "NoActiveSession"
              /\ last'.effects = <<>>
              /\ calls' = calls (-) SetToBag({c})
              /\ UNCHANGED <<activeUserStates, objs, persistentUserSettings>> ]_vars

\* C16: after a StartStream with highlighting engaged whose configuration
\* request succeeds, the SessionState's rtmpUrl is the fixed ingest URL of the
\* highlighting service for the user's stream key, the request-stream command
\* carries that same URL, and in hls mode the hlsUrl is the playback URL the
\* service returned.
C16_IngestUrlAfterConfig ==
    (/\ last.op = "startStream.fetch"
     /\ last.outcome = "pending"
     /\ last.args.session # ClosedSession
     /\ activeUserStates[last.user] = last.args.session)
        => LET o == last.args.session
               ingest == <<"rtmp://", "stream.okgodoit.com/live/">>
                             \o streamKey(last.user)
           IN /\ SessionState(last.user).rtmpUrl = ingest
              /\ Issued({"requestStream"}) # {}
              /\ \A i \in Issued({"requestStream"}) :
                     last.effects[i] = RequestStream(o, ingest)
              /\ (last.args.mode = "hls" /\ last.args.response = "ok with output_url")
                     => SessionState(last.user).hlsUrl =
                            Some(playbackUrl(streamKey(last.user)))

C16_Witness ==
    /\ last.op = "startStream.fetch"
    /\ last.outcome = "pending"
    /\ last.args.mode = "hls"
    /\ last.args.response = "ok with output_url"
    /\ activeUserStates[last.user] = last.args.session
    /\ Registered(last.user)
    /\ The(persistentUserSettings[last.user]).rtmpUrl = UrlB
    /\ SessionState(last.user).rtmpUrl = ingestUrl(streamKey(last.user))
    /\ SessionState(last.user).hlsUrl # None

\* C17: a status push event for a user with no SessionState is discarded: it
\* raises no error, creates no SessionState entry, changes no
\* PersistentSettings and sends nothing to the device.
C17_StatusWithoutStateDiscarded ==
    [][ \A o \in ObjIds :
          (/\ IsConnected(o)
           /\ ~Registered(Obj(o).user)
           /\ last'.op = "onStatus" /\ last'.args.session = o) =>
              /\ last'.outcome = "discarded"
              /\ last'.detail = None
              /\ last'.effects = <<>>
              /\ UNCHANGED <<activeUserStates, persistentUserSettings, objs, calls>>
      ]_vars

C17_Witness ==
    /\ last.op = "onStatus"
    /\ last.outcome = "discarded"
    /\ last.effects = <<>>
    /\ ~Registered(last.user)
    /\ DeviceConnected(last.user)

\* C18: for a connected user, after a status push event with status s the
\* stored status is exactly s, for every s and whatever was stored before; an
\* event with status stopped leaves the stored status exactly stopped whatever
\* its other fields.
C18_StatusStoredAsPushed ==
    [][ \A o \in ObjIds, e \in StatusEvents :
          (/\ IsConnected(o)
           /\ Registered(Obj(o).user)
           /\ last'.op = "onStatus"
           /\ onStatus(o, e)) =>
              /\ last'.outcome = "ok"
              /\ objs'[activeUserStates[Obj(o).user]] # None
              /\ The(objs'[activeUserStates[Obj(o).user]]).streamStatus.status = e.status
      ]_vars

C18_Witness ==
    /\ last.op = "onStatus"
    /\ last.outcome = "ok"
    /\ Registered(last.user)
    /\ SessionState(last.user).streamStatus.status = "stopped"
    /\ SessionState(last.user).streamStatus.errorDetails = Some("device error")
    /\ calls # EmptyBag

\* C19: setRtmpUrl with an empty URL fails with an invalid-URL error, leaves
\* the PersistentSettings and the SessionState of the user as they were and
\* sends no display notification.
C19_EmptyUrlRejected ==
    [][ \A u \in Users :
          (last'.op = "setRtmpUrl" /\ PostRtmpUrl(u, Some(EmptyUrl))) =>
              /\ last'.outcome = "InvalidUrl"
              /\ last'.effects = <<>>
              /\ UNCHANGED <<activeUserStates, persistentUserSettings, objs, calls>>
      ]_vars

C19_Witness ==
    /\ last.op = "setRtmpUrl"
    /\ last.outcome = "InvalidUrl"
    /\ Registered(last.user)
    /\ persistentUserSettings[last.user] # None
    /\ The(persistentUserSettings[last.user]).rtmpUrl = UrlA
    /\ SessionState(last.user).rtmpUrl = UrlA

C21_ReadPriority ==
    \A u \in Users :
        LET p == persistentUserSettings[u]
            connected == activeUserStates[u] # 0
        IN /\ getRtmpUrlForUser(u) =
                  (IF p # None THEN The(p).rtmpUrl
                   ELSE IF connected THEN SessionState(u).rtmpUrl
                   ELSE <<"rtmp://", "0.0.0.0/s/streamKey">>)
           /\ getStreamModeForUser(u) =
                  (IF p # None /\ The(p).streamMode # None THEN The(The(p).streamMode)
                   ELSE IF connected THEN SessionState(u).streamMode
                   ELSE "hls")
           /\ isFaceHighlightingEnabledForUser(u) =
                  (IF p # None /\ The(p).faceHighlightingEnabled # None
                   THEN The(The(p).faceHighlightingEnabled)
                   ELSE IF connected /\ SessionState(u).faceHighlightingEnabled # None
                        THEN The(SessionState(u).faceHighlightingEnabled)
                   ELSE TRUE)

C21_Witness ==
    \E u \in Users :
        /\ Registered(u)
        /\ persistentUserSettings[u] # None
        /\ The(persistentUserSettings[u]).rtmpUrl = UrlA
        /\ SessionState(u).rtmpUrl = ingestUrl(streamKey(u))
        /\ getRtmpUrlForUser(u) = UrlA
        /\ getStreamModeForUser(u) = "rtmp"
        /\ isFaceHighlightingEnabledForUser(u) = TRUE

\* C22: updateSettings writes the provided fields into the PersistentSettings
\* and, if the user has a SessionState, mirrors exactly those fields into it,
\* so that right after the call both agree on every provided field; it
\* succeeds without a connected session.
C22_SettingsWrittenAndMirrored ==
    [][ \A u \in Users, m \in OptModes, f \in OptFlags :
          (last'.op = "updateSettings" /\ PostStreamPreferences(u, m, f)) =>
              LET q == persistentUserSettings'[u]
                  o == activeUserStates[u]
              IN /\ last'.outcome = "ok"
                 /\ activeUserStates' = activeUserStates
                 /\ q # None
                 /\ m # None => The(q).streamMode = m
                 /\ f # None => The(q).faceHighlightingEnabled = f
                 /\ IF o = 0 THEN objs' = objs
                    ELSE /\ objs'[o] # None
                         /\ The(objs'[o]).streamMode =
                                (IF m # None THEN The(m) ELSE Obj(o).streamMode)
                         /\ The(objs'[o]).faceHighlightingEnabled =
                                (IF f # None THEN f ELSE Obj(o).faceHighlightingEnabled)
                         /\ The(objs'[o]).rtmpUrl = Obj(o).rtmpUrl
                         /\ The(objs'[o]).streamStatus = Obj(o).streamStatus
                         /\ The(objs'[o]).hlsUrl = Obj(o).hlsUrl ]_vars

C22_Witness ==
    /\ last.op = "updateSettings"
    /\ last.outcome = "ok"
    /\ DOMAIN last.args = {"streamMode"}
    /\ last.args["streamMode"] = Some("rtmp")
    /\ Registered(last.user)
    /\ SessionState(last.user).streamMode = "rtmp"
    /\ SessionState(last.user).faceHighlightingEnabled = Some(FALSE)
    /\ The(persistentUserSettings[last.user]).streamMode = Some("rtmp")
    /\ The(persistentUserSettings[last.user]).faceHighlightingEnabled = Some(FALSE)

\* C23: a settings merge overwrites only the fields it is given, every other
\* PersistentSettings field keeps its value; this includes the merge made by
\* StartStream, so a StartStream in rtmp or simulation mode without a
\* highlighting flag leaves the persisted faceHighlightingEnabled as it was.
C23_MergeKeepsOtherFields ==
    [][ \A u \in Users :
          persistentUserSettings[u] # None =>
            LET p == The(persistentUserSettings[u])
                q == persistentUserSettings'[u]
            IN /\ \A url \in StartUrls, m \in {"rtmp", "simulation"} :
                     (last'.op = "startStream"
                      /\ PostStartStream(u, url, None, Some(m))) =>
                         /\ q # None
                         /\ The(q).faceHighlightingEnabled = p.faceHighlightingEnabled
                         /\ The(q).rtmpUrl = p.rtmpUrl
               /\ \A m \in OptModes, f \in OptFlags :
                     (last'.op = "updateSettings"
                      /\ PostStreamPreferences(u, m, f)) =>
                         /\ q # None
                         /\ The(q).rtmpUrl = p.rtmpUrl
                         /\ m = None => The(q).streamMode = p.streamMode
                         /\ f = None => The(q).faceHighlightingEnabled =
                                            p.faceHighlightingEnabled ]_vars

\* C24: the stream key is a deterministic and collision-free function of the
\* user id: the same id gives the same key and two different ids never give
\* the same key, also for ids that differ only in '@' versus '_'.
C24_StreamKeyCollisionFree ==
    last.op = "streamKey" =>
        (last.user = last.args.other <=> last.effects[1] = last.effects[2])

\* C25: a SessionState's status becomes initializing or active only by a
\* status push event: a successful StartStream leaves the status exactly as it
\* was, and no command ever writes active or initializing.
C25_OnlyEventsAdvanceStatus ==
    [][ /\ \A o \in ObjIds :
              (/\ objs'[o] # None
               /\ The(objs'[o]).streamStatus.status \in {"active", "initializing"}
               /\ (objs[o] = None
                   \/ The(objs[o]).streamStatus # The(objs'[o]).streamStatus))
                  => last'.op = "onStatus"
        /\ \A u \in Users :
              (/\ last'.user = u
               /\ last'.op \in {"startStream", "startStream.fetch",
                                "startStream.transport"}
               /\ last'.outcome \in {"pending", "ok"}
               /\ Registered(u))
                  => /\ activeUserStates'[u] = activeUserStates[u]
                     /\ SessionState(u)'.streamStatus = SessionState(u).streamStatus
      ]_vars

C25_Witness ==
    /\ last.op = "startStream.transport"
    /\ last.outcome = "ok"
    /\ last.args.session = activeUserStates[last.user]
    /\ Registered(last.user)
    /\ SessionState(last.user).streamStatus.status = "stopped"
    /\ SessionState(last.user).rtmpUrl = ingestUrl(streamKey(last.user))

TransportOps == {"startStream.transport", "stopStream.transport"}

\* a start and a stop of u's registered session were in flight together, the
\* previous step settled the transport call of one and this step settles the
\* transport call of the other, with nothing in between
BothResolved(u) ==
    /\ last.op \in TransportOps
    /\ last'.op \in TransportOps
    /\ last.op # last'.op
    /\ last.user = u
    /\ last'.user = u
    /\ activeUserStates[u] # 0
    /\ last.args.session = activeUserStates[u]
    /\ last'.args.session = activeUserStates[u]

\* C26 (as stated): with a start and a stop in flight together and nothing in
\* between, the status stored once both transport calls have resolved is the
\* one the call that resolved last gives: the error status if it was rejected,
\* and the status from before the two resolutions if it was accepted.
C26_LastResolvedDecides ==
    [][ \A u \in Users :
            BothResolved(u) =>
                SessionState(u)'.streamStatus =
                    IF ~last'.args.accepted
                    THEN ErrorStatus(TransportErrorMessage)
                    ELSE The(last.args.was)
      ]_vars

\* C26 (amended): only a rejection writes the status, so the status stored once
\* both transport calls have resolved is the error status if either call was
\* rejected (whichever resolved last), and the status from before the two
\* resolutions if both were accepted.
C26_AnyRejectionDecides ==
    [][ \A u \in Users :
            BothResolved(u) =>
                SessionState(u)'.streamStatus =
                    IF ~last'.args.accepted \/ ~last.args.accepted
                    THEN ErrorStatus(TransportErrorMessage)
                    ELSE The(last.args.was)
      ]_vars

C26_Witness ==
    /\ last.op = "stopStream.transport"
    /\ last.args.accepted
    /\ last.args.session = activeUserStates[last.user]
    /\ last.args.was = Some(ErrorStatus(TransportErrorMessage))
    /\ Registered(last.user)
    /\ SessionState(last.user).streamStatus = ErrorStatus(TransportErrorMessage)
    /\ calls = EmptyBag

CompletionOps ==
    {k \o pc : k \in {"startStream", "stopStream", "onConnected", "voiceStart",
                      "voiceStop"},
               pc \in {".fetch", ".transport"}}

\* C27: a reconnect wins over lingering completions.  The SessionState a
\* connect creates is an object no suspended call holds, and the completion
\* (success or failure) of a call that holds another object than the
\* registered one leaves the registered state's rtmpUrl, hlsUrl and status as
\* they were.
C27_ReconnectWins ==
    [][ \A u \in Users :
          /\ (last'.op = "onSession" /\ last'.user = u)
                => \A c \in BagToSet(calls') : c.obj # activeUserStates'[u]
          /\ (/\ last'.op \in CompletionOps
              /\ last'.user = u
              /\ activeUserStates[u] # 0
              /\ last'.args.session # activeUserStates[u])
                => /\ activeUserStates'[u] = activeUserStates[u]
                   /\ SessionState(u)'.rtmpUrl = SessionState(u).rtmpUrl
                   /\ SessionState(u)'.hlsUrl = SessionState(u).hlsUrl
                   /\ SessionState(u)'.streamStatus = SessionState(u).streamStatus
      ]_vars

C27_Witness ==
    /\ last.op = "startStream.transport"
    /\ ~last.args.accepted
    /\ last.args.session = ClosedSession
    /\ Registered(last.user)
    /\ SessionState(last.user).streamStatus = getInitialStreamStatus
    /\ SessionState(last.user).rtmpUrl = defaultRtmpUrl

\* C28: no retries.  A StartStream call issues at most one configuration
\* request and at most one request-stream command, and a StopStream call at
\* most one stop-stream command: the call's first step issues either the
\* configuration request (and then awaits it) or the request-stream command
\* (and then awaits that), the step after the configuration response issues no
\* further configuration request and at most the one request-stream command,
\* and the step after the transport's answer, accepted or rejected, issues no
\* command and ends the call.
C28_NoRetries ==
    [][ LET n(t) == Cardinality({i \in DOMAIN last'.effects :
                                    last'.effects[i].type = t})
            begun == BagToSet(calls' (-) calls)
            awaits(pc) == \E c \in begun : c.pc = pc
        IN /\ n("fetchConfig") + n("requestStream") + n("stopStream") <= 1
           /\ last'.op = "startStream" =>
                 /\ n("stopStream") = 0
                 /\ n("fetchConfig") = 1 <=> awaits("fetch")
                 /\ n("requestStream") = 1 <=> awaits("transport")
           /\ last'.op = "stopStream" =>
                 /\ n("fetchConfig") = 0 /\ n("requestStream") = 0
                 /\ n("stopStream") = 1 <=> awaits("transport")
           /\ last'.op = "startStream.fetch" =>
                 /\ n("fetchConfig") = 0 /\ n("stopStream") = 0
                 /\ n("requestStream") = 1 <=> awaits("transport")
                 /\ BagCardinality(calls') =
                       BagCardinality(calls) - (1 - n("requestStream"))
           /\ last'.op \in TransportOps =>
                 /\ n("fetchConfig") = 0 /\ n("requestStream") = 0
                 /\ n("stopStream") = 0
                 /\ BagCardinality(calls') = BagCardinality(calls) - 1
      ]_vars

C28_Witness ==
    /\ last.op = "startStream.transport"
    /\ ~last.args.accepted
    /\ last.outcome = "TransportError"
    /\ Issued({"fetchConfig", "requestStream", "stopStream"}) = {}
    /\ calls = EmptyBag

Streaming == {"active", "initializing"}

\* C29: SessionState.rtmpUrl is the URL in use.  While the registered session
\* streams to the highlighting service's ingest URL (the URL its last
\* request-stream command carried) and its status is and stays active or
\* initializing, a step that changes its rtmpUrl (setRtmpUrl, updateSettings
\* or any other) issues a request-stream command carrying the new URL.
C29_RtmpUrlIsUrlInUse ==
    [][ \A u \in Users :
            (/\ Registered(u)
             /\ activeUserStates'[u] = activeUserStates[u]
             /\ SessionState(u).streamStatus.status \in Streaming
             /\ SessionState(u)'.streamStatus.status \in Streaming
             /\ SessionState(u).rtmpUrl = ingestUrl(streamKey(u))
             /\ SessionState(u)'.rtmpUrl # SessionState(u).rtmpUrl)
                => \E i \in DOMAIN last'.effects :
                      last'.effects[i] =
                          RequestStream(activeUserStates[u], SessionState(u)'.rtmpUrl)
      ]_vars

\* C30: in rtmp mode with highlighting engaged, the forwarding target sent to
\* the highlighting service (output_rtmp) is never the highlighting service's
\* own ingest URL for that user, for every StartStream of a sequence of
\* StartStream calls in one session, those that pass no URL included.
C30_ForwardTargetIsNotIngest ==
    \A i \in Issued({"fetchConfig"}) :
        last.effects[i].body.output_rtmp # Some(ingestUrl(streamKey(last.user)))

\* C31: every configuration request sent to the highlighting service carries
\* exactly one output selector: output_hls when the resolved mode is hls, and
\* output_rtmp with a non-empty target URL otherwise.
C31_OneOutputSelector ==
    \A i \in Issued({"fetchConfig"}) :
        LET body == last.effects[i].body
            mode == resolveMode(last.args.streamMode)
        IN /\ (body.output_hls # None) # (body.output_rtmp # None)
           /\ mode = "hls" => body.output_hls = Some(TRUE)
           /\ mode # "hls" => /\ body.output_rtmp # None
                              /\ The(body.output_rtmp) # EmptyUrl

C31_Witness ==
    /\ last.op = "startStream"
    /\ last.outcome = "pending"
    /\ last.args.streamMode = Some("rtmp")
    /\ last.args.rtmpUrl = None
    /\ \E i \in Issued({"fetchConfig"}) :
          /\ last.effects[i].body.output_rtmp = Some(UrlA)
          /\ last.effects[i].body.output_hls = None

\* a StartStream step in rtmp mode without highlighting for the connected user u
DirectStart(u) ==
    /\ last'.op = "startStream"
    /\ last'.user = u
    /\ Registered(u)
    /\ last'.args.streamMode = Some("rtmp")
    /\ last'.args.highlightFaces # Some(TRUE)

\* the step issues no highlighting-service request, its request-stream command
\* carries url, and u's SessionState.rtmpUrl is url afterwards
StreamsDirectlyTo(u, url) ==
    /\ \A i \in DOMAIN last'.effects : last'.effects[i].type # "fetchConfig"
    /\ \E i \in DOMAIN last'.effects :
          last'.effects[i] = RequestStream(activeUserStates[u], url)
    /\ activeUserStates'[u] = activeUserStates[u]
    /\ SessionState(u)'.rtmpUrl = url

\* C32 (as stated): StartStream in rtmp mode with highlighting false for a
\* connected user issues no highlighting-service request, and the request-stream
\* command carries, and SessionState.rtmpUrl afterwards equals, the requested
\* URL if one is given, else the SessionState's current rtmpUrl, else the
\* process default.
C32_DirectUrlAsGiven ==
    [][ \A u \in Users :
            DirectStart(u) =>
                StreamsDirectlyTo(u,
                    IF last'.args.rtmpUrl # None THEN The(last'.args.rtmpUrl)
                    ELSE IF SessionState(u).rtmpUrl # EmptyUrl
                         THEN SessionState(u).rtmpUrl
                         ELSE defaultRtmpUrl)
      ]_vars

\* C32 (amended): the same with "given" meaning given and not the empty
\* string: an empty requested URL is passed over like an absent one.
C32_DirectUrlAsGivenNonEmpty ==
    [][ \A u \in Users :
            DirectStart(u) =>
                StreamsDirectlyTo(u,
                    IF last'.args.rtmpUrl # None /\ The(last'.args.rtmpUrl) # EmptyUrl
                    THEN The(last'.args.rtmpUrl)
                    ELSE IF SessionState(u).rtmpUrl # EmptyUrl
                         THEN SessionState(u).rtmpUrl
                         ELSE defaultRtmpUrl)
      ]_vars

C32_Witness ==
    /\ last.op = "startStream"
    /\ last.outcome = "pending"
    /\ last.args.streamMode = Some("rtmp")
    /\ last.args.highlightFaces = Some(FALSE)
    /\ last.args.rtmpUrl = Some(EmptyUrl)
    /\ Registered(last.user)
    /\ SessionState(last.user).rtmpUrl = UrlA
    /\ Issued({"requestStream"}) # {}
    /\ \A i \in Issued({"requestStream"}) : last.effects[i].rtmpUrl = UrlA

\* C33: SessionState.hlsUrl is present only if, since the connect that
\* created the SessionState, a configuration request in hls mode succeeded and
\* returned a playback URL, and then it is the URL of the most recent such
\* request: a connect creates the state without hlsUrl; the hlsUrl of the
\* registered state changes only in the step after a successful response with
\* a playback URL to an hls-mode request made on that state; and every such
\* step leaves the returned URL in hlsUrl.
C33_HlsUrlFromLatestPlayback ==
    [][ \A u \in Users :
          /\ (last'.op = "onSession" /\ last'.user = u)
                => SessionState(u)'.hlsUrl = None
          /\ (/\ last'.op # "onSession"
              /\ Registered(u)
              /\ activeUserStates'[u] = activeUserStates[u])
                => LET returned == /\ last'.op = "startStream.fetch"
                                   /\ last'.user = u
                                   /\ last'.outcome = "pending"
                                   /\ last'.args.session = activeUserStates[u]
                                   /\ last'.args.mode = "hls"
                                   /\ output_url(last'.args.response,
                                                 streamKey(u)) # None
                   IN IF returned
                      THEN SessionState(u)'.hlsUrl =
                               output_url(last'.args.response, streamKey(u))
                      ELSE SessionState(u)'.hlsUrl = SessionState(u).hlsUrl
      ]_vars

C33_Witness ==
    /\ last.op = "startStream.fetch"
    /\ last.args.mode = "hls"
    /\ last.args.response = "ok with another output_url"
    /\ last.args.session = activeUserStates[last.user]
    /\ Registered(last.user)
    /\ SessionState(last.user).hlsUrl = Some(otherPlaybackUrl(streamKey(last.user)))

\* C34: no stale playback URL.  In every reachable state a registered
\* SessionState that has an hlsUrl has streamMode hls.
C34_NoStalePlaybackUrl ==
    \A u \in Users :
        (Registered(u) /\ SessionState(u).hlsUrl # None)
            => SessionState(u).streamMode = "hls"

\* C35 (as stated): after a disconnect of the user the reported status is
\* stopped, whatever was stored before, and it stays stopped until a status
\* event arrives on a later connected session.
C35_StoppedUntilStatusEvent ==
    last.since \in {"disconnect", "rejected"} =>
        \A u \in Users : getStreamStatusForUser(u) = getInitialStreamStatus

\* C35 (amended): ... and it stays stopped until, on a later connected session,
\* a status event arrives or the transport rejects a command.
C35_StoppedUntilEventOrRejection ==
    last.since = "disconnect" =>
        \A u \in Users : getStreamStatusForUser(u) = getInitialStreamStatus

C35_Witness ==
    /\ last.since = "disconnect"
    /\ last.op = "startStream.transport"
    /\ last.args.accepted
    /\ last.args.session = activeUserStates[last.user]
    /\ getStreamStatusForUser(last.user) = getInitialStreamStatus

\* C36: a StartStream that fails at the highlighting-service step has already
\* persisted its resolved mode and highlighting flag.  The step that sends the
\* configuration request leaves the resolved streamMode and
\* faceHighlightingEnabled in PersistentSettings and in the SessionState and
\* leaves SessionState.rtmpUrl and hlsUrl as they were; the step in which the
\* request fails changes no PersistentSettings and no SessionState.
C36_FailedStartHasPersisted ==
    [][ \A u \in Users :
          /\ (/\ last'.op = "startStream"
              /\ last'.user = u
              /\ last'.outcome = "pending"
              /\ \E i \in DOMAIN last'.effects :
                    last'.effects[i].type = "fetchConfig")
                => LET mode == resolveMode(last'.args.streamMode)
                       hf == resolveHighlight(mode, last'.args.highlightFaces)
                   IN /\ activeUserStates'[u] = activeUserStates[u]
                      /\ persistentUserSettings'[u] # None
                      /\ The(persistentUserSettings'[u]).streamMode = Some(mode)
                      /\ The(persistentUserSettings'[u]).faceHighlightingEnabled = hf
                      /\ SessionState(u)'.streamMode = mode
                      /\ SessionState(u)'.faceHighlightingEnabled = hf
                      /\ SessionState(u)'.rtmpUrl = SessionState(u).rtmpUrl
                      /\ SessionState(u)'.hlsUrl = SessionState(u).hlsUrl
          /\ (/\ last'.op = "startStream.fetch"
              /\ last'.user = u
              /\ last'.outcome = "HighlightConfigError")
                => UNCHANGED <<activeUserStates, persistentUserSettings, objs>>
      ]_vars

C36_Witness ==
    /\ last.op = "startStream.fetch"
    /\ last.outcome = "HighlightConfigError"
    /\ last.args.mode = "rtmp"
    /\ last.args.session = activeUserStates[last.user]
    /\ Registered(last.user)
    /\ SessionState(last.user).streamMode = "rtmp"
    /\ SessionState(last.user).faceHighlightingEnabled = Some(TRUE)
    /\ The(persistentUserSettings[last.user]).streamMode = Some("rtmp")
    /\ The(persistentUserSettings[last.user]).faceHighlightingEnabled = Some(TRUE)
    /\ SessionState(last.user).rtmpUrl = defaultRtmpUrl
    /\ SessionState(last.user).hlsUrl = None

\* C37: StartStream never changes the URL reported by the settings read: for
\* any arguments and any outcome, getRtmpUrl(U) after each step of a
\* StartStream call (the call itself, the configuration response, the
\* transport's answer) equals the value before it; a step that changes it is
\* a setRtmpUrl or an updateSettings.
C37_StartKeepsReportedUrl ==
    [][ \A u \in Users :
          /\ (/\ last'.user = u
              /\ last'.op \in {"startStream", "startStream.fetch",
                               "startStream.transport"})
                => getRtmpUrlForUser(u)' = getRtmpUrlForUser(u)
          /\ getRtmpUrlForUser(u)' # getRtmpUrlForUser(u)
                => last'.op \in {"setRtmpUrl", "updateSettings"}
      ]_vars

C37_Witness ==
    /\ last.op = "startStream.transport"
    /\ last.args.accepted
    /\ last.args.session = activeUserStates[last.user]
    /\ Registered(last.user)
    /\ SessionState(last.user).rtmpUrl = UrlA
    /\ getRtmpUrlForUser(last.user) = defaultRtmpUrl

\* the objects (SessionState with its device session) of user v
ObjectsOf(v) == {o \in ObjIds : objs[o] # None /\ Obj(o).user = v}

\* C38: users are isolated.  A step for user u (connect, disconnect,
\* StartStream, StopStream, setRtmpUrl, updateSettings, status event, or the
\* completion of one of u's awaited calls) leaves the entry, the SessionState
\* and the PersistentSettings of every other user v unchanged and sends no
\* command on a device session of v.
C38_UsersIsolated ==
    [][ \A u, v \in AllUsers :
            (last'.user = u /\ v # u) =>
                /\ activeUserStates'[v] = activeUserStates[v]
                /\ persistentUserSettings'[v] = persistentUserSettings[v]
                /\ \A o \in ObjectsOf(v) : objs'[o] = objs[o]
                /\ \A i \in DOMAIN last'.effects :
                      last'.effects[i].type \in {"display", "requestStream", "stopStream"}
                          => last'.effects[i].session \notin ObjectsOf(v)
      ]_vars

C38_Witness ==
    /\ last.op = "startStream.fetch"
    /\ last.outcome = "pending"
    /\ last.user = OtherUser
    /\ \A u \in AllUsers : Registered(u)
    /\ SessionState(OtherUser).rtmpUrl = ingestUrl(streamKey(OtherUser))
    /\ \E u \in Users :
          /\ streamKey(u) = streamKey(OtherUser)
          /\ SessionState(u).rtmpUrl = UrlA
          /\ SessionState(u).streamStatus.status = "active"
          /\ SessionState(u).hlsUrl = None

\* C39: a running stream can always be stopped.  When the transport has just
\* accepted the request-stream command of the user's registered session (so
\* no stop-stream command has been issued since), a StopStream call for that
\* user issues a stop-stream command on that session, whatever the user's
\* stream mode has been set to in the meantime.
C39_RunningStreamCanBeStopped ==
    [][ \A u \in Users :
            (/\ last.op = "startStream.transport"
             /\ last.user = u
             /\ last.args.accepted
             /\ Registered(u)
             /\ last.args.session = activeUserStates[u]
             /\ last'.op = "stopStream"
             /\ last'.user = u)
                => \E i \in DOMAIN last'.effects :
                      last'.effects[i] = StopStream(activeUserStates[u])
      ]_vars

====
